---- MODULE Spec2Model ----
\* Model of MultiplexMarkovChain.py: the Bayesian estimator MarkovChain and the
\* null model MultiplexMarkovChain built on it.
\*
\* Arrays are functions over 0..n-1, so every index is the index of the code.
\* A float is an exact rational <<num, den>> in lowest terms with den > 0;
\* <<0, 0>> is nan and <<1, 0>> is inf. A float that came out of np.sqrt is a
\* surd <<cn, cd, rn, rd>>, the value (cn/cd) * sqrt(rn/rd). Counts are whole
\* numbers and are kept as integers. Floating-point rounding is not modelled.
EXTENDS Integers, Sequences, FiniteSets, TLC

VARIABLES arg, obj, ret, warnings, nCompute, zeroDiv

vars == <<arg, obj, ret, warnings, nCompute, zeroDiv>>

\* ---------------------------------------------------------------- bounds
MaxFill == 1
MaxBump == 1
MaxLen == 17
MaxRecompute == 2

\* ------------------------------------------------------- program constants
GaussianThreshold == 100
JointLen == 16

\* --------------------------------------------------------------- options
None == [tag |-> "None"]
Some(v) == [tag |-> "Some", val |-> v]
IsNone(x) == x.tag = "None"

\* ---------------------------------------------------------------- arrays
Arr(s) == [i \in 0..(Len(s) - 1) |-> s[i + 1]]
ALen(a) == Cardinality(DOMAIN a)
Zeros(n) == [i \in 0..(n - 1) |-> 0]

RECURSIVE SumRange(_, _, _)
SumRange(a, lo, hi) == IF lo >= hi THEN 0 ELSE a[lo] + SumRange(a, lo + 1, hi)

\* ---------------------------------------------------------------- floats
RECURSIVE GCD(_, _)
GCD(a, b) == IF b = 0 THEN a ELSE GCD(b, a % b)

Abs(x) == IF x < 0 THEN 0 - x ELSE x

Rat(n, d) ==
    IF n = 0 THEN <<0, 1>>
    ELSE LET g == GCD(Abs(n), d) IN <<n \div g, d \div g>>

Zero == <<0, 1>>
One == <<1, 1>>
NaN == <<0, 0>>
Inf == <<1, 0>>
IsNaN(x) == x = NaN
IsFinite(x) == x[2] > 0

FAdd(x, y) ==
    IF IsNaN(x) \/ IsNaN(y) THEN NaN
    ELSE IF x = Inf \/ y = Inf THEN Inf
    ELSE LET g == GCD(x[2], y[2])
         IN Rat(x[1] * (y[2] \div g) + y[1] * (x[2] \div g), (x[2] \div g) * y[2])

FSub(x, y) ==
    LET g == GCD(x[2], y[2])
    IN Rat(x[1] * (y[2] \div g) - y[1] * (x[2] \div g), (x[2] \div g) * y[2])

FMul(x, y) ==
    IF IsNaN(x) \/ IsNaN(y) THEN NaN
    ELSE IF x = Inf \/ y = Inf THEN (IF x = Zero \/ y = Zero THEN NaN ELSE Inf)
    ELSE IF x = Zero \/ y = Zero THEN Zero
    ELSE LET g1 == GCD(x[1], y[2])
             g2 == GCD(y[1], x[2])
         IN <<(x[1] \div g1) * (y[1] \div g2), (x[2] \div g2) * (y[2] \div g1)>>

\* numpy float division: 0/0 is nan and x/0 is inf, with a RuntimeWarning only
FDiv(x, y) ==
    IF IsNaN(x) \/ IsNaN(y) THEN NaN
    ELSE IF y = Zero THEN (IF x = Zero THEN NaN ELSE Inf)
    ELSE IF y = Inf THEN (IF x = Inf THEN NaN ELSE Zero)
    ELSE IF x = Inf THEN Inf
    ELSE FMul(x, <<y[2], y[1]>>)

FLess(x, y) == x[1] * y[2] < y[1] * x[2]

Surd(c, r) == <<c[1], c[2], r[1], r[2]>>
Coef(s) == <<s[1], s[2]>>
Rad(s) == <<s[3], s[4]>>
Sqrt(r) == Surd(One, r)
Square(s) == FMul(FMul(Coef(s), Coef(s)), Rad(s))
SurdDiv(s, p) == Sqrt(FDiv(Square(s), FMul(p, p)))
SurdScale(c, s) == Surd(FMul(c, Coef(s)), Rad(s))
SurdIsFinite(s) == IsFinite(Coef(s)) /\ IsFinite(Rad(s))

RECURSIVE ISqrtFrom(_, _)
ISqrtFrom(n, k) == IF (k + 1) * (k + 1) > n THEN k ELSE ISqrtFrom(n, k + 1)
ISqrt(n) == ISqrtFrom(n, 0)

\* ----------------------------------------------------------- MarkovChain
MarkovChainInit(counts) ==
    [class |-> "MarkovChain",
     counts |-> counts,
     params |-> None,
     std |-> None,
     state_totals |-> None,
     num_transitions |-> ALen(counts)]

StateTotal(counts, l, c1) == SumRange(counts, c1 * l, (c1 + 1) * l)

ProbParam_NoPrior(count, tot, l) == Rat(count, tot + l)

ProbParam(count, tot, l) == Rat(count + 1, tot + l)

ProbSigma_NoExtraOne(p, tot, l) == Sqrt(FDiv(FMul(p, FSub(One, p)), Rat(tot + l, 1)))

ProbSigma(p, tot, l) == Sqrt(FDiv(FMul(p, FSub(One, p)), Rat(tot + (l + 1), 1)))

compute_prob_params(self, counts) ==
    LET num_transitions == self.num_transitions
        l == ISqrt(num_transitions)
        tot(c1) == StateTotal(counts, l, c1)
        totals == [c1 \in 0..(l - 1) |-> Rat(tot(c1), 1)]
        Filled(index) == index < l * l /\ tot(index \div l) > 0
        mu == [index \in 0..(num_transitions - 1) |->
                  IF Filled(index)
                  THEN ProbParam(counts[index], tot(index \div l), l)
                  ELSE Zero]
        sigma == [index \in 0..(num_transitions - 1) |->
                  IF Filled(index)
                  THEN ProbSigma(mu[index], tot(index \div l), l)
                  ELSE Sqrt(Zero)]
    IN [self EXCEPT !.params = Some(mu),
                    !.std = Some(sigma),
                    !.state_totals = Some(totals)]

ParamsMissing(self) == IsNone(self.params)
StdMissing(self) == IsNone(self.std)
TotalsMissing(self) == IsNone(self.state_totals)

get_parameters(self) ==
    IF ParamsMissing(self) THEN compute_prob_params(self, self.counts) ELSE self

get_std_dev(self) ==
    IF StdMissing(self) THEN compute_prob_params(self, self.counts) ELSE self

get_state_totals(self) ==
    IF TotalsMissing(self) THEN compute_prob_params(self, self.counts) ELSE self

\* -------------------------------------------------- MultiplexMarkovChain
RECURSIVE BitAnd(_, _)
BitAnd(x, y) ==
    IF x = 0 \/ y = 0 THEN 0
    ELSE (x % 2) * (y % 2) + 2 * BitAnd(x \div 2, y \div 2)

\* Python's & on unbounded two's complement integers; -1 is all ones
PyAnd(x, y) == IF y = 0 - 1 THEN x ELSE BitAnd(x, y)

_is_power_of_2_NoZeroTest(x) == PyAnd(x, x - 1) = 0

_is_power_of_2(x) == PyAnd(x, x - 1) = 0 /\ x # 0

MultiplexInit(counts) ==
    LET num_transitions == ALen(counts)
    IN IF ~_is_power_of_2(num_transitions)
       THEN [raised |-> "AssertionError", obj |-> [class |-> "None"]]
       ELSE [raised |-> "none",
             obj |-> [class |-> "MultiplexMarkovChain",
                      counts |-> counts,
                      params |-> None,
                      std |-> None,
                      state_totals |-> None,
                      num_transitions |-> num_transitions,
                      null_components |-> None,
                      null_prob |-> None,
                      null_std |-> None]]

Layer1Table_Slip == Arr(<< <<0, 2, 8, 10>>, <<1, 3, 9, 11>>, <<4, 6, 12, 14>>, <<5, 7, 13, 14>> >>)

\* the joint indices summed into each entry of the two layer count vectors
Layer1Table == Arr(<< <<0, 2, 8, 10>>, <<1, 3, 9, 11>>, <<4, 6, 12, 14>>, <<5, 7, 13, 15>> >>)
Layer2Table == Arr(<< <<0, 1, 4, 5>>, <<2, 3, 6, 7>>, <<8, 9, 12, 13>>, <<10, 11, 14, 15>> >>)

TableSum(counts, row) == counts[row[1]] + counts[row[2]] + counts[row[3]] + counts[row[4]]

\* the first count[...] beyond the end of the array raises IndexError, before
\* null_components is assigned
_compute_null_counts(self, counts) ==
    LET inRange(row) == \A k \in 1..4 : row[k] < ALen(counts)
    IN IF \E e \in 0..3 : ~inRange(Layer1Table[e]) \/ ~inRange(Layer2Table[e])
       THEN [raised |-> "IndexError", obj |-> self]
       ELSE LET counts_layer1 == [e \in 0..3 |-> TableSum(counts, Layer1Table[e])]
                counts_layer2 == [e \in 0..3 |-> TableSum(counts, Layer2Table[e])]
            IN [raised |-> "none",
                obj |-> [self EXCEPT !.null_components =
                            Some(Arr(<<[counts |-> counts_layer1],
                                       [counts |-> counts_layer2]>>))]]

compute_prob_null_components_Invalidating(self) ==
    [self EXCEPT !.null_prob = None,
                 !.null_components =
        Some([j \in DOMAIN self.null_components.val |->
                 [counts |-> self.null_components.val[j].counts,
                  MC |-> MarkovChainInit(self.null_components.val[j].counts)]])]

compute_prob_null_components(self) ==
    [self EXCEPT !.null_components =
        Some([j \in DOMAIN self.null_components.val |->
                 [counts |-> self.null_components.val[j].counts,
                  MC |-> MarkovChainInit(self.null_components.val[j].counts)]])]

compute_null_components(self) ==
    LET r == _compute_null_counts(self, self.counts)
    IN IF r.raised # "none" THEN r
       ELSE [raised |-> "none", obj |-> compute_prob_null_components(r.obj)]

IndexTable_Slip ==
    Arr(<< <<0, 0>>, <<1, 0>>, <<0, 1>>, <<1, 1>>,
           <<2, 0>>, <<3, 0>>, <<1, 2>>, <<3, 1>>,
           <<0, 2>>, <<2, 1>>, <<0, 3>>, <<1, 3>>,
           <<2, 2>>, <<3, 2>>, <<2, 3>> >>)

IndexTable ==
    Arr(<< <<0, 0>>, <<1, 0>>, <<0, 1>>, <<1, 1>>,
           <<2, 0>>, <<3, 0>>, <<2, 1>>, <<3, 1>>,
           <<0, 2>>, <<1, 2>>, <<0, 3>>, <<1, 3>>,
           <<2, 2>>, <<3, 2>>, <<2, 3>> >>)

get_index_for_null(i) == IF i \in DOMAIN IndexTable THEN Arr(IndexTable[i]) ELSE Arr(<<3, 3>>)

LowTotals_All(state_totals) ==
    \A s \in DOMAIN state_totals : FLess(state_totals[s], Rat(GaussianThreshold, 1))

LowTotals(state_totals) ==
    \E s \in DOMAIN state_totals : FLess(state_totals[s], Rat(GaussianThreshold, 1))

\* a layer estimator once the loop has asked it for get_parameters() and
\* get_std_dev()
LayerAfterLoop(mc) == get_std_dev(get_parameters(mc))

\* pnull[i] starts at 1 and is multiplied by the probability of each layer
PNullEntry(prob0, prob1) == FMul(FMul(One, prob0), prob1)

\* std_null[i] starts at 0 and gains (sigma/prob)**2 for each layer
RelEntry(sigma0, prob0, sigma1, prob1) ==
    FAdd(FAdd(Zero, Square(SurdDiv(sigma0, prob0))), Square(SurdDiv(sigma1, prob1)))

NullStdEntry(pnull, rel) == SurdScale(pnull, Sqrt(rel))

\* the loop over the transitions; self has answered get_state_totals(), mc0
\* and mc1 are the two layer estimators
NullLoop(self, mc0, mc1) ==
    LET num_transitions == self.num_transitions
        q(i, j) == get_index_for_null(i)[j]
        prob0(i) == mc0.params.val[q(i, 0)]
        prob1(i) == mc1.params.val[q(i, 1)]
        sigma0(i) == mc0.std.val[q(i, 0)]
        sigma1(i) == mc1.std.val[q(i, 1)]
    IN [obj |-> [self EXCEPT
                   !.null_components.val[0].MC = mc0,
                   !.null_components.val[1].MC = mc1,
                   !.null_prob = Some([i \in 0..(num_transitions - 1) |->
                                          PNullEntry(prob0(i), prob1(i))]),
                   !.null_std = Some([i \in 0..(num_transitions - 1) |->
                                          NullStdEntry(PNullEntry(prob0(i), prob1(i)),
                                                       RelEntry(sigma0(i), prob0(i),
                                                                sigma1(i), prob1(i)))])],
        warned |-> LowTotals(self.state_totals.val),
        zerodiv |-> \E i \in 0..(num_transitions - 1) : prob0(i) = Zero \/ prob1(i) = Zero]

NullFromTotals(self) ==
    NullLoop(self,
             LayerAfterLoop(self.null_components.val[0].MC),
             LayerAfterLoop(self.null_components.val[1].MC))

compute_null_prob_std(self) == NullFromTotals(get_state_totals(self))

NullProbMissing(self) == IsNone(self.null_prob)
NullStdMissing_Always(self) == TRUE

NullStdMissing(self) == IsNone(self.null_std)
NullComponentsMissing(self) == IsNone(self.null_components)

Raised(r) ==
    [raised |-> r.raised, obj |-> r.obj, warned |-> FALSE, zerodiv |-> FALSE, ran |-> FALSE]

Ran(c) ==
    [raised |-> "none", obj |-> c.obj, warned |-> c.warned, zerodiv |-> c.zerodiv, ran |-> TRUE]

AfterComponents(r) ==
    IF r.raised # "none" THEN Raised(r) ELSE Ran(compute_null_prob_std(r.obj))

\* the body shared by get_null_prob and get_null_std_dev once the guarded
\* field is found missing
ComputeNull(self) ==
    IF NullComponentsMissing(self)
    THEN AfterComponents(compute_null_components(self))
    ELSE Ran(compute_null_prob_std(self))

Unchanged(self) ==
    [raised |-> "none", obj |-> self, warned |-> FALSE, zerodiv |-> FALSE, ran |-> FALSE]

get_null_prob(self) == IF NullProbMissing(self) THEN ComputeNull(self) ELSE Unchanged(self)

get_null_std_dev(self) == IF NullStdMissing(self) THEN ComputeNull(self) ELSE Unchanged(self)

\* ------------------------------------------------------------- inputs
\* A count vector is a constant fill, and for the joint length a fill with one
\* entry raised; the values straddle the warning threshold.
FillVals == (0..MaxFill) \cup {GaussianThreshold \div 4}
BumpVals == (1..MaxBump) \cup {GaussianThreshold - 1, GaussianThreshold}

Fill(n, v) == [i \in 0..(n - 1) |-> v]

Bumped == {[Fill(JointLen, v) EXCEPT ![i] = v + c] :
              v \in FillVals, i \in 0..(JointLen - 1), c \in BumpVals}

Lens == (0..MaxLen) \cup {2 * JointLen}

Inputs == Bumped \cup {Fill(n, v) : n \in Lens, v \in FillVals}

\* ------------------------------------------------------ the state machine
Accessors == {"get_state_totals", "get_parameters", "get_std_dev",
              "get_null_prob", "get_null_std_dev"}

NoObject == [class |-> "None"]
NoValue == Arr(<< >>)

Result(op, raised, val) == [op |-> op, raised |-> raised, val |-> val]

Bump(b) == IF b THEN 1 ELSE 0

Init ==
    /\ arg \in Inputs
    /\ obj = NoObject
    /\ ret = Result("none", "none", NoValue)
    /\ warnings = 0
    /\ nCompute = [joint |-> 0, components |-> 0, null |-> 0, layer |-> Arr(<<0, 0>>)]
    /\ zeroDiv = FALSE

ConstructMarkovChain ==
    /\ obj = NoObject
    /\ obj' = MarkovChainInit(arg)
    /\ ret' = Result("MarkovChain", "none", NoValue)
    /\ UNCHANGED <<arg, warnings, nCompute, zeroDiv>>

ConstructMultiplex ==
    /\ obj = NoObject
    /\ LET r == MultiplexInit(arg)
       IN /\ obj' = r.obj
          /\ ret' = Result("MultiplexMarkovChain", r.raised, NoValue)
    /\ UNCHANGED <<arg, warnings, nCompute, zeroDiv>>

GetParameters ==
    /\ obj # NoObject
    /\ obj' = get_parameters(obj)
    /\ ret' = Result("get_parameters", "none", obj'.params.val)
    /\ nCompute' = [nCompute EXCEPT !.joint = @ + Bump(ParamsMissing(obj))]
    /\ UNCHANGED <<arg, warnings, zeroDiv>>

GetStdDev ==
    /\ obj # NoObject
    /\ obj' = get_std_dev(obj)
    /\ ret' = Result("get_std_dev", "none", obj'.std.val)
    /\ nCompute' = [nCompute EXCEPT !.joint = @ + Bump(StdMissing(obj))]
    /\ UNCHANGED <<arg, warnings, zeroDiv>>

GetStateTotals ==
    /\ obj # NoObject
    /\ obj' = get_state_totals(obj)
    /\ ret' = Result("get_state_totals", "none", obj'.state_totals.val)
    /\ nCompute' = [nCompute EXCEPT !.joint = @ + Bump(TotalsMissing(obj))]
    /\ UNCHANGED <<arg, warnings, zeroDiv>>

\* how often compute_prob_params runs on a layer estimator in the loop of
\* compute_null_prob_std: in its first iteration, which fills the caches
LayerRuns(mc) == Bump(ParamsMissing(mc)) + Bump(StdMissing(get_parameters(mc)))

\* the layer estimators compute_null_prob_std starts from
LayersBefore(before) == [j \in 0..1 |-> before.null_components.val[j].MC]

NullBookkeeping(r) ==
    IF ~r.ran THEN nCompute
    ELSE [joint |-> nCompute.joint + Bump(TotalsMissing(obj)),
          components |-> nCompute.components + Bump(NullComponentsMissing(obj)),
          null |-> nCompute.null + 1,
          layer |-> [j \in 0..1 |->
                       nCompute.layer[j]
                       + LayerRuns(LayersBefore(IF NullComponentsMissing(obj)
                                                THEN compute_null_components(obj).obj
                                                ELSE obj)[j])]]

NullCall(op, r) ==
    /\ obj' = r.obj
    /\ ret' = Result(op, r.raised,
                     IF r.raised # "none" THEN NoValue
                     ELSE IF op = "get_null_prob" THEN r.obj.null_prob.val
                     ELSE r.obj.null_std.val)
    /\ warnings' = warnings + Bump(r.warned)
    /\ zeroDiv' = (zeroDiv \/ r.zerodiv)
    /\ nCompute' = NullBookkeeping(r)
    /\ UNCHANGED arg

GetNullProb ==
    /\ obj.class = "MultiplexMarkovChain"
    /\ NullCall("get_null_prob", get_null_prob(obj))

GetNullStdDev ==
    /\ obj.class = "MultiplexMarkovChain"
    /\ NullCall("get_null_std_dev", get_null_std_dev(obj))

ComputeNullComponents ==
    /\ obj.class = "MultiplexMarkovChain"
    /\ nCompute.components < MaxRecompute
    /\ LET r == compute_null_components(obj)
       IN /\ obj' = r.obj
          /\ ret' = Result("compute_null_components", r.raised, NoValue)
          /\ nCompute' = [nCompute EXCEPT !.components = @ + Bump(r.raised = "none")]
    /\ UNCHANGED <<arg, warnings, zeroDiv>>

Next ==
    \/ ConstructMarkovChain
    \/ ConstructMultiplex
    \/ GetParameters
    \/ GetStdDev
    \/ GetStateTotals
    \/ GetNullProb
    \/ GetNullStdDev
    \/ ComputeNullComponents

Spec == Init /\ [][Next]_vars

\* the accessors alone, on an object of either class
NextAccessors ==
    \/ ConstructMarkovChain
    \/ ConstructMultiplex
    \/ GetParameters
    \/ GetStdDev
    \/ GetStateTotals
    \/ GetNullProb
    \/ GetNullStdDev

SpecAccessors == Init /\ [][NextAccessors]_vars

\* ------------------------------------------------------------ properties
RECURSIVE SumSet(_, _)
SumSet(f, S) ==
    IF S = {} THEN 0
    ELSE LET x == CHOOSE y \in S : TRUE IN f[x] + SumSet(f, S \ {x})

Constructed == obj # NoObject
IsMultiplex == obj.class = "MultiplexMarkovChain"
HasComponents == IsMultiplex /\ ~IsNone(obj.null_components)
HasNull == IsMultiplex /\ ~IsNone(obj.null_prob)
LayerMC(j) == obj.null_components.val[j].MC
LayerCounts(j) == obj.null_components.val[j].counts

\* every estimator the state holds: the object itself and the layer estimators
Estimators ==
    (IF Constructed THEN {obj} ELSE {})
    \cup (IF HasComponents THEN {LayerMC(j) : j \in 0..1} ELSE {})

IsSquare(len) == \E n \in 0..len : n * n = len
Root(len) == CHOOSE n \in 0..len : n * n = len
RowTotal(counts, n, s) == SumSet(counts, {s * n + d : d \in 0..(n - 1)})

\* C1: for a count vector of length n*n, the state totals are the row sums of
\* the counts, and the parameter of (s,d) is (counts[s*n+d] + 1) / (totals[s] + n)
\* when totals[s] > 0 and 0 when totals[s] = 0; get_parameters returns them.
ParametersAsClaimed(counts, totals, params) ==
    LET n == Root(ALen(counts))
    IN /\ DOMAIN totals = 0..(n - 1)
       /\ DOMAIN params = 0..(n * n - 1)
       /\ \A s \in 0..(n - 1) :
            /\ totals[s] = <<RowTotal(counts, n, s), 1>>
            /\ \A d \in 0..(n - 1) :
                 LET q == params[s * n + d]
                     t == RowTotal(counts, n, s)
                 IN IF t > 0
                    THEN q[2] > 0 /\ q[1] * (t + n) = (counts[s * n + d] + 1) * q[2]
                    ELSE q = Zero

JointIndices == 0..(JointLen - 1)
Bit1(state) == state % 2
Bit2(state) == state \div 2
Marginal1(c, a, b) == SumSet(c, {i \in JointIndices : Bit1(i \div 4) = a /\ Bit1(i % 4) = b})
Marginal2(c, a, b) == SumSet(c, {i \in JointIndices : Bit2(i \div 4) = a /\ Bit2(i % 4) = b})

C2_Marginals ==
    (HasComponents /\ obj.num_transitions = JointLen)
        => /\ DOMAIN obj.null_components.val = 0..1
           /\ DOMAIN LayerCounts(0) = 0..3
           /\ DOMAIN LayerCounts(1) = 0..3
           /\ \A a \in 0..1, b \in 0..1 :
                /\ LayerCounts(0)[2 * a + b] = Marginal1(obj.counts, a, b)
                /\ LayerCounts(1)[2 * a + b] = Marginal2(obj.counts, a, b)
           /\ SumSet(LayerCounts(0), 0..3) = SumSet(obj.counts, JointIndices)
           /\ SumSet(LayerCounts(1), 0..3) = SumSet(obj.counts, JointIndices)
           /\ \A j \in 0..1 : LayerMC(j).counts = LayerCounts(j)

C2_Witness ==
    /\ ret.op = "compute_null_components"
    /\ ret.raised = "none"
    /\ obj.num_transitions = JointLen
    /\ \E i \in JointIndices : obj.counts[i] > obj.counts[(i + 1) % JointLen]
    /\ \E e \in 0..3 : LayerCounts(0)[e] # LayerCounts(1)[e]

\* C3: null_prob[i] is the product of the layer-1 parameter j1 and the layer-2
\* parameter j2, where the joint transition i = 4*o + d has
\* j1 = 2*(o mod 2) + (d mod 2) and j2 = 2*(o div 2) + (d div 2); these are the
\* layer transitions whose marginal count c[i] is added into.
J1(i) == 2 * ((i \div 4) % 2) + ((i % 4) % 2)
J2(i) == 2 * ((i \div 4) \div 2) + ((i % 4) \div 2)
LayerParameters(j) == get_parameters(MarkovChainInit(LayerCounts(j))).params.val
InRow(i, row) == \E k \in 1..4 : row[k] = i

NullProbAsClaimed(pnull) ==
    /\ DOMAIN pnull = JointIndices
    /\ \A i \in JointIndices :
         /\ pnull[i] = FMul(LayerParameters(0)[J1(i)], LayerParameters(1)[J2(i)])
         /\ InRow(i, Layer1Table[J1(i)])
         /\ InRow(i, Layer2Table[J2(i)])

C3_NullProb ==
    /\ (HasNull /\ obj.num_transitions = JointLen) => NullProbAsClaimed(obj.null_prob.val)
    /\ (ret.op = "get_null_prob" /\ ret.raised = "none" /\ obj.num_transitions = JointLen)
            => NullProbAsClaimed(ret.val)

C3_Witness ==
    /\ ret.op = "get_null_prob"
    /\ ret.raised = "none"
    /\ obj.num_transitions = JointLen
    /\ \E i \in JointIndices, k \in JointIndices :
         /\ ret.val[i] # Zero
         /\ ret.val[k] # Zero
         /\ ret.val[i] # ret.val[k]

\* C4: constructing a MultiplexMarkovChain raises AssertionError and yields no
\* object exactly when the length of the counts is not a power of two.
RECURSIVE Pow2(_)
Pow2(k) == IF k = 0 THEN 1 ELSE 2 * Pow2(k - 1)
IsPowerOfTwo(n) == \E k \in 0..n : Pow2(k) = n

C4_Validation ==
    ret.op = "MultiplexMarkovChain"
        => IF IsPowerOfTwo(ALen(arg))
           THEN ret.raised = "none" /\ IsMultiplex /\ obj.counts = arg
           ELSE ret.raised = "AssertionError" /\ obj = NoObject

C4_Witness ==
    /\ ret.op = "MultiplexMarkovChain"
    /\ ret.raised = "AssertionError"
    /\ obj = NoObject
    /\ ALen(arg) = 3

\* C5: the null probabilities of each joint origin state, the four entries
\* 4*o .. 4*o+3, sum to 1.
BlockSum(pnull, o) ==
    FAdd(FAdd(FAdd(pnull[4 * o], pnull[4 * o + 1]), pnull[4 * o + 2]), pnull[4 * o + 3])

C5_BlockSums ==
    (ret.op = "get_null_prob" /\ ret.raised = "none" /\ obj.num_transitions = JointLen)
        => \A o \in 0..3 : BlockSum(ret.val, o) = One

\* C6: under accessor calls alone every cached quantity is absent until a call
\* computes it, is computed at most once, never changes once present, and each
\* accessor returns the cached quantity, so a later call returns what the first
\* call returned, whatever the order of the calls.
WriteOnce(old, new) == IsNone(old) \/ new = old

CacheWriteOnce(old, new) ==
    /\ new.counts = old.counts
    /\ WriteOnce(old.params, new.params)
    /\ WriteOnce(old.std, new.std)
    /\ WriteOnce(old.state_totals, new.state_totals)

AbsentUntilComputed(mc, runs) ==
    /\ IsNone(mc.params) <=> runs = 0
    /\ IsNone(mc.std) <=> runs = 0
    /\ IsNone(mc.state_totals) <=> runs = 0

ReturnedField(r, o) ==
    CASE r.op = "get_parameters" -> o.params.val
      [] r.op = "get_std_dev" -> o.std.val
      [] r.op = "get_state_totals" -> o.state_totals.val
      [] r.op = "get_null_prob" -> o.null_prob.val
      [] r.op = "get_null_std_dev" -> o.null_std.val

C6_Step ==
    /\ Constructed =>
         /\ CacheWriteOnce(obj, obj')
         /\ IsMultiplex =>
              /\ WriteOnce(obj.null_prob, obj'.null_prob)
              /\ WriteOnce(obj.null_std, obj'.null_std)
              /\ HasComponents =>
                   /\ ~IsNone(obj'.null_components)
                   /\ \A j \in 0..1 :
                        /\ obj'.null_components.val[j].counts = LayerCounts(j)
                        /\ CacheWriteOnce(LayerMC(j), obj'.null_components.val[j].MC)
         /\ (ret'.op = ret.op /\ ret.op \in Accessors) => ret' = ret
    /\ Constructed' =>
         /\ nCompute'.joint <= 1
         /\ nCompute'.components <= 1
         /\ nCompute'.null <= 1
         /\ \A j \in 0..1 : nCompute'.layer[j] <= 1
         /\ AbsentUntilComputed(obj', nCompute'.joint)
         /\ IsMultiplex' =>
              /\ IsNone(obj'.null_components) <=> nCompute'.components = 0
              /\ IsNone(obj'.null_prob) <=> nCompute'.null = 0
              /\ IsNone(obj'.null_std) <=> nCompute'.null = 0
              /\ ~IsNone(obj'.null_components) =>
                   \A j \in 0..1 :
                      AbsentUntilComputed(obj'.null_components.val[j].MC, nCompute'.layer[j])
         /\ (ret'.op \in Accessors /\ ret'.raised = "none") => ret'.val = ReturnedField(ret', obj')
         /\ (ret'.op \in Accessors /\ ret'.raised # "none") => obj' = obj

C6_Memoized == [][C6_Step]_vars

C6_Witness ==
    /\ ret.op = "get_parameters"
    /\ HasNull
    /\ obj.num_transitions = JointLen
    /\ nCompute = [joint |-> 1, components |-> 1, null |-> 1, layer |-> Arr(<<1, 1>>)]

\* C7: when a state total of either layer estimator is below 100, computing
\* the null probability and standard deviation emits the warning, and the
\* computation completes and returns its arrays.
LayerTotal(j, s) == LayerCounts(j)[2 * s] + LayerCounts(j)[2 * s + 1]
LayerTotalsLow == \E j \in 0..1, s \in 0..1 : LayerTotal(j, s) < GaussianThreshold

C7_Warning ==
    (HasNull /\ obj.num_transitions = JointLen /\ LayerTotalsLow)
        => /\ warnings >= 1
           /\ ~IsNone(obj.null_std)
           /\ DOMAIN obj.null_prob.val = JointIndices
           /\ DOMAIN obj.null_std.val = JointIndices
           /\ \A j \in 0..1 : ~IsNone(LayerMC(j).state_totals) =>
                \A s \in 0..1 : LayerMC(j).state_totals.val[s] = <<LayerTotal(j, s), 1>>
           /\ ret.op \in {"get_null_prob", "get_null_std_dev"} =>
                ret.raised = "none" /\ ret.val = ReturnedField(ret, obj)

C7_Witness ==
    /\ HasNull
    /\ obj.num_transitions = JointLen
    /\ ret.op = "get_null_std_dev"
    /\ ret.raised = "none"
    /\ warnings = 1
    /\ LayerTotalsLow
    /\ \E s \in 0..3 : obj.state_totals.val[s][1] >= GaussianThreshold
    /\ \A i \in JointIndices : SurdIsFinite(ret.val[i])

\* C8: every layer probability the null standard deviation divides by is
\* non-zero, so the computation never divides by zero.
C8_NoZeroDivisor ==
    (HasNull /\ obj.num_transitions = JointLen)
        => /\ ~zeroDiv
           /\ \A i \in JointIndices, j \in 0..1 :
                LayerParameters(j)[get_index_for_null(i)[j]] # Zero
           /\ \A i \in JointIndices : SurdIsFinite(obj.null_std.val[i])

\* C9: for a count vector of length n*n the standard deviation of (s,d) is the
\* non-negative root of p*(1-p) / (totals[s] + n + 1), p being the parameter
\* of (s,d): sigma^2 * (totals[s] + n + 1) = p*(1-p).
StdDevAsClaimed(totals, params, std) ==
    LET n == ALen(totals)
    IN /\ DOMAIN std = 0..(n * n - 1)
       /\ \A s \in 0..(n - 1), d \in 0..(n - 1) :
            LET p == params[s * n + d]
                v == Square(std[s * n + d])
            IN /\ v[1] >= 0
               /\ v[2] > 0
               /\ FMul(v, Rat(totals[s][1] + n + 1, 1)) = FMul(p, FSub(One, p))

C9_StdDev ==
    /\ \A mc \in Estimators :
         (IsSquare(mc.num_transitions) /\ ~IsNone(mc.std))
            => StdDevAsClaimed(mc.state_totals.val, mc.params.val, mc.std.val)
    /\ (ret.op = "get_std_dev" /\ IsSquare(obj.num_transitions))
            => /\ ret.val = obj.std.val
               /\ StdDevAsClaimed(obj.state_totals.val, obj.params.val, ret.val)

C9_Witness ==
    /\ ret.op = "get_std_dev"
    /\ obj.num_transitions = JointLen
    /\ \E i \in JointIndices : Square(ret.val[i]) = Zero
    /\ \E i \in JointIndices : Square(ret.val[i])[1] > 0

\* C10: compute_null_components on an object whose null components exist
\* leaves the whole object unchanged, the layer estimators and their caches
\* included.
C10_Step ==
    (/\ HasComponents
     /\ ret'.op = "compute_null_components"
     /\ nCompute'.components = nCompute.components + 1)
        => obj' = obj

C10_NoOp == [][C10_Step]_vars

\* C11: a joint count vector whose length is a power of two other than 16 is
\* rejected: no MultiplexMarkovChain object ever holds such a vector, so none
\* reaches the length-16 tables of the null model.
C11_OnlySixteen ==
    IsMultiplex => ALen(obj.counts) = JointLen

\* a vector of 32 counts is accepted and its null model is answered without
\* any error, from the first 16 counts and the [3, 3] default of the index table
C11_Mishandled ==
    /\ IsMultiplex
    /\ ALen(obj.counts) = 2 * JointLen
    /\ ret.op = "get_null_prob"
    /\ ret.raised = "none"
    /\ ALen(ret.val) = 2 * JointLen

\* a shorter vector is accepted and fails only when the null model is asked
\* for, with the IndexError of the marginalization
C11_LateIndexError ==
    /\ IsMultiplex
    /\ ALen(obj.counts) < JointLen
    /\ ret.op = "get_null_prob"
    /\ ret.raised = "IndexError"

\* C12: a 16-entry MultiplexMarkovChain object, after any sequence of calls,
\* has params, std and state_totals all absent or all present, has null_prob
\* and null_std both absent or both present, holds exactly two components
\* with their counts and their own estimators whenever null_prob is present,
\* and still stores the joint counts it was constructed from.
SameState(a, b) == IsNone(a) <=> IsNone(b)

TwoComponents ==
    /\ ~IsNone(obj.null_components)
    /\ DOMAIN obj.null_components.val = 0..1
    /\ \A j \in 0..1 :
         /\ DOMAIN obj.null_components.val[j] = {"counts", "MC"}
         /\ LayerMC(j).class = "MarkovChain"
         /\ LayerMC(j).counts = LayerCounts(j)

C12_Coherent ==
    (IsMultiplex /\ ALen(obj.counts) = JointLen) =>
        /\ SameState(obj.params, obj.std)
        /\ SameState(obj.std, obj.state_totals)
        /\ SameState(obj.null_prob, obj.null_std)
        /\ HasNull => TwoComponents
        /\ obj.counts = arg

\* the null model was answered and the components were then computed again
C12_Witness ==
    /\ IsMultiplex
    /\ ALen(obj.counts) = JointLen
    /\ HasNull
    /\ ~IsNone(obj.params)
    /\ ret.op = "compute_null_components"
    /\ nCompute.components = 2
    /\ \E i \in 0..(JointLen - 1) : obj.counts[i] > 0

====
